---- MODULE Spec2Model ----
(***************************************************************************)
(* The bee pipeline: analyze -> code_gen -> interpret.                     *)
(*                                                                         *)
(* The source tree holds one complete program (main.rs: lex, parse,        *)
(* analyze, code_gen, interpret) and a second, Document-based code         *)
(* generator (code_gen.rs: code_gen_document, code_gen).  main.rs spells   *)
(* the operations of a Let initializer as the nodes Plus, Minus, LtGt,     *)
(* And, Or, Not; code_gen.rs spells the same operations as Call nodes      *)
(* named add, sub, concat, and, or, not.  The model has one node kind,     *)
(* "Op", whose field op carries the operation name.                        *)
(*                                                                         *)
(* Rust Strings that are compared only for equality (identifiers, type     *)
(* annotations, panic messages) are TLA+ strings.  Rust Strings that are   *)
(* converted (Constant.value, string literals, printed lines) are          *)
(* sequences of one-character strings, so that to_string and parse are     *)
(* computed and not assumed.                                               *)
(***************************************************************************)
EXTENDS Integers, Sequences, FiniteSets, TLC

VARIABLES
    stage,          \* where main() is: the pass that runs next
    document,       \* the parsed program read so far: constants and body
    symbol_table,   \* SymbolTable { variables, functions, constants }
    generator,      \* which code generator lowers the program
    cursor,         \* index in the body of the last statement lowered
    op_codes,       \* Vec<OpCode>
    registers,      \* interpret: let mut registers = [0; 32]
    variables,      \* interpret: HashMap<usize, usize>
    pc,             \* interpret: program counter
    steps,          \* number of instructions fetched by interpret
    output,         \* lines printed by OpCode::Print
    overflow_checks,\* build profile, fixed at the first overflowing operation
    error           \* the panic that aborted the process, if any

vars == <<stage, document, symbol_table, generator, cursor, op_codes,
          registers, variables, pc, steps, output, overflow_checks, error>>

----------------------------------------------------------------------------
(* Bounds of the model *)

MaxConsts == 1
MaxStmts == 2
UsizeBits == 8

(* Program constants *)

RegisterCount == 32

Modulus == 2 ^ UsizeBits

----------------------------------------------------------------------------
(* Strings that are converted: sequences of characters *)

Digits == <<"0", "1", "2", "3", "4", "5", "6", "7", "8", "9">>

IsDigit(c) == \E d \in 1..10 : Digits[d] = c

DigitValue(c) == (CHOOSE d \in 1..10 : Digits[d] = c) - 1

RECURSIVE to_string(_)
to_string(n) ==
    IF n < 10 THEN <<Digits[n + 1]>>
    ELSE to_string(n \div 10) \o <<Digits[(n % 10) + 1]>>

RECURSIVE DigitsValue(_)
DigitsValue(s) ==
    IF Len(s) = 0 THEN 0
    ELSE DigitsValue(SubSeq(s, 1, Len(s) - 1)) * 10 + DigitValue(s[Len(s)])

\* str::parse::<usize>(): Ok(n) for a non-empty run of digits that fits the
\* word, Err otherwise
parse(s) ==
    IF Len(s) > 0 /\ Len(s) <= 3 /\ (\A i \in 1..Len(s) : IsDigit(s[i]))
       /\ DigitsValue(s) < Modulus
    THEN [ok |-> TRUE, value |-> DigitsValue(s)]
    ELSE [ok |-> FALSE, value |-> 0]

TrueName == <<"T", "r", "u", "e">>
FalseName == <<"F", "a", "l", "s", "e">>

----------------------------------------------------------------------------
(* The AST, as parse_expression and parse_fn_body build it *)

IntLit(n) == [kind |-> "Int", value |-> n]
\* the payload of a String node is named text: TLC cannot hold records whose
\* field value is a number in one and a string in the other in one set
StringLit(s) == [kind |-> "String", text |-> s]
UpName(n) == [kind |-> "UpName", name |-> n]
Name(n) == [kind |-> "Name", name |-> n]
Op(o, a) == [kind |-> "Op", op |-> o, args |-> a]
Let(n, t, v) == [kind |-> "Let", name |-> n, type_annot |-> t, value |-> v]
Call(n, a) == [kind |-> "Call", name |-> n, args |-> a]
Block(s) == [kind |-> "Block", statements |-> s]
Const(n, t, v) == [name |-> n, type_annot |-> t, value |-> v]

BinaryOps == {"add", "sub", "concat", "and", "or"}
UnaryOps == {"not"}

(* The inputs the model draws programs from *)

LetNames == {"x", "y"}
ConstNames == {"x"}
Types == {"Integer", "Bool", "String"}
IntLiterals == {1, 40}
StringLiterals == {<<"s">>}

Atoms ==
    {IntLit(n) : n \in IntLiterals}
    \cup {StringLit(s) : s \in StringLiterals}
    \cup {UpName(TrueName), UpName(FalseName)}
    \cup {Name(n) : n \in LetNames}
    \cup {Block(<<>>)}

Operands ==
    {IntLit(n) : n \in IntLiterals}
    \cup {StringLit(s) : s \in StringLiterals}
    \cup {UpName(TrueName), Name("x")}

Initializers ==
    Atoms
    \cup {Op(o, <<l, r>>) : o \in BinaryOps, l \in Operands, r \in Operands}
    \cup {Op(o, <<v>>) : o \in UnaryOps, v \in Operands}

PrintNames == {"print_integer", "print_bool", "print_string"}

Statements ==
    {Let(n, t, v) : n \in LetNames, t \in Types, v \in Initializers}
    \cup {Call(n, <<a>>) : n \in PrintNames, a \in Atoms}

ConstDecls ==
    {Const(n, t, v) : n \in ConstNames, t \in Types,
                      v \in {IntLit(5), StringLit(<<"s">>), UpName(TrueName),
                             Name("x"), Op("add", <<IntLit(1), IntLit(1)>>)}}

----------------------------------------------------------------------------
(* Vec helpers *)

\* iter().position(|v| v.name == name): index of the first match, 0-based,
\* or -1 for None
position(vec, name) ==
    IF \E i \in 1..Len(vec) : vec[i].name = name
    THEN (CHOOSE i \in 1..Len(vec) :
              /\ vec[i].name = name
              /\ \A j \in 1..(i - 1) : vec[j].name # name) - 1
    ELSE -1

\* iter().find(|v| v.name == name): Some(first match) or None
found(vec, name) == position(vec, name) >= 0

find(vec, name) == vec[position(vec, name) + 1]

----------------------------------------------------------------------------
(* analyze *)

NoError == [stage |-> "", message |-> ""]

Panic(s, m) == [stage |-> s, message |-> m]

\* the literal kind each operation accepts as an operand, and the
\* type_annot its Let must carry
OperandKind(op) ==
    CASE op \in {"add", "sub"} -> "Int"
      [] op = "concat" -> "String"
      [] op \in {"and", "or", "not"} -> "UpName"

\* a faulty variant of ResultType: the arm of concat copied from add
ResultTypeCopied(op) ==
    CASE op \in {"add", "sub", "concat"} -> "Integer"
      [] op \in {"and", "or", "not"} -> "Bool"

ResultType(op) ==
    CASE op \in {"add", "sub"} -> "Integer"
      [] op = "concat" -> "String"
      [] op \in {"and", "or", "not"} -> "Bool"

\* a faulty variant of AnalyzeName: a name that is not found is let through
AnalyzeNameLenient(st, type_annot, name) ==
    IF found(st.variables, name)
    THEN IF find(st.variables, name).type_annot # type_annot
         THEN "Type mismatch" ELSE ""
    ELSE ""

\* the check of a Name against symbol_table.variables; "" when it passes
AnalyzeName(st, type_annot, name) ==
    IF found(st.variables, name)
    THEN IF find(st.variables, name).type_annot # type_annot
         THEN "Type mismatch" ELSE ""
    ELSE "Variable not found"

\* a faulty variant of AnalyzeOperand: a literal of another kind than the
\* operation's is let through
AnalyzeOperandAnyLiteral(st, type_annot, op, operand) ==
    CASE operand.kind = "Name" -> AnalyzeName(st, type_annot, operand.name)
      [] operand.kind = OperandKind(op) /\ operand.kind = "UpName" ->
            IF operand.name # TrueName /\ operand.name # FalseName
            THEN "Invalid value" ELSE ""
      [] operand.kind = OperandKind(op) /\ operand.kind # "UpName" ->
            IF type_annot # ResultType(op) THEN "Type mismatch" ELSE ""
      [] OTHER -> ""

\* the check of one operand of an operation; "" when it passes
AnalyzeOperand(st, type_annot, op, operand) ==
    CASE operand.kind = "Name" -> AnalyzeName(st, type_annot, operand.name)
      [] operand.kind = OperandKind(op) /\ operand.kind = "UpName" ->
            IF operand.name # TrueName /\ operand.name # FalseName
            THEN "Invalid value" ELSE ""
      [] operand.kind = OperandKind(op) /\ operand.kind # "UpName" ->
            IF type_annot # ResultType(op) THEN "Type mismatch" ELSE ""
      [] OTHER -> "Invalid value"

\* the checks of a Let initializer, in the order analyze makes them; the
\* message of the first panic, or "" when the initializer is accepted
AnalyzeInitializer(st, type_annot, value) ==
    CASE value.kind = "Int" ->
            IF type_annot # "Integer" THEN "Type mismatch" ELSE ""
      [] value.kind = "String" ->
            IF type_annot # "String" THEN "Type mismatch" ELSE ""
      [] value.kind = "UpName" ->
            IF type_annot = "Bool"
               /\ (value.name = TrueName \/ value.name = FalseName)
            THEN "" ELSE "Type mismatch"
      [] value.kind = "Name" -> AnalyzeName(st, type_annot, value.name)
      [] value.kind = "Op" ->
            IF type_annot # ResultType(value.op) THEN "Invalid type"
            ELSE LET first == AnalyzeOperand(st, type_annot, value.op,
                                             value.args[1])
                 IN  IF first # "" \/ Len(value.args) = 1 THEN first
                     ELSE AnalyzeOperand(st, type_annot, value.op,
                                         value.args[2])
      [] OTHER -> "Invalid value"

\* a faulty variant of AnalyzeLet: the Variable is pushed before the
\* initializer is checked, so that a Let sees itself
AnalyzeLetPushFirst(st, stmt) ==
    LET pushed == [st EXCEPT !.variables =
                       Append(@, [name |-> stmt.name,
                                  type_annot |-> stmt.type_annot])]
        message == AnalyzeInitializer(pushed, stmt.type_annot, stmt.value)
    IN  IF message # ""
        THEN [message |-> message, symbol_table |-> st]
        ELSE [message |-> "", symbol_table |-> pushed]

\* a faulty variant of AnalyzeLet: the Variable is put in front of the list
AnalyzeLetPrepending(st, stmt) ==
    LET message == AnalyzeInitializer(st, stmt.type_annot, stmt.value)
    IN  IF message # ""
        THEN [message |-> message, symbol_table |-> st]
        ELSE [message |-> "",
              symbol_table |->
                  [st EXCEPT !.variables =
                       <<[name |-> stmt.name,
                          type_annot |-> stmt.type_annot]>> \o @]]

\* analyze, arm Let: the panic message ("" for none) and the symbol table
\* it leaves
AnalyzeLet(st, stmt) ==
    LET message == AnalyzeInitializer(st, stmt.type_annot, stmt.value)
    IN  IF message # ""
        THEN [message |-> message, symbol_table |-> st]
        ELSE [message |-> "",
              symbol_table |->
                  [st EXCEPT !.variables =
                       Append(@, [name |-> stmt.name,
                                  type_annot |-> stmt.type_annot])]]

\* analyze on a statement of the function body
AnalyzeStatementResult(st, stmt) ==
    IF stmt.kind = "Let" THEN AnalyzeLet(st, stmt)
    ELSE [message |-> "", symbol_table |-> st]

\* a faulty variant of AnalyzeConstResult: an initializer that is no literal
\* is let through
AnalyzeConstResultAnyValue(st, decl) ==
    LET value == decl.value
        message ==
            CASE value.kind = "Int" ->
                    IF decl.type_annot # "Integer" THEN "Type mismatch"
                    ELSE ""
              [] value.kind = "String" ->
                    IF decl.type_annot # "String" THEN "Type mismatch"
                    ELSE ""
              [] value.kind = "UpName" ->
                    IF decl.type_annot = "Bool"
                       /\ (value.name = TrueName \/ value.name = FalseName)
                    THEN "" ELSE "Type mismatch"
              [] OTHER -> ""
        text ==
            CASE value.kind = "Int" -> to_string(value.value)
              [] value.kind = "String" -> value.text
              [] value.kind = "UpName" -> value.name
              [] OTHER -> <<>>
    IN  IF message # ""
        THEN [message |-> message, symbol_table |-> st]
        ELSE [message |-> "",
              symbol_table |->
                  [st EXCEPT !.constants =
                       Append(@, [name |-> decl.name,
                                  type_annot |-> decl.type_annot,
                                  value |-> text])]]

\* analyze, arm Const
AnalyzeConstResult(st, decl) ==
    LET value == decl.value
        message ==
            CASE value.kind = "Int" ->
                    IF decl.type_annot # "Integer" THEN "Type mismatch"
                    ELSE ""
              [] value.kind = "String" ->
                    IF decl.type_annot # "String" THEN "Type mismatch"
                    ELSE ""
              [] value.kind = "UpName" ->
                    IF decl.type_annot = "Bool"
                       /\ (value.name = TrueName \/ value.name = FalseName)
                    THEN "" ELSE "Type mismatch"
              [] OTHER -> "Invalid value"
        text ==
            CASE value.kind = "Int" -> to_string(value.value)
              [] value.kind = "String" -> value.text
              [] value.kind = "UpName" -> value.name
              [] OTHER -> <<>>
    IN  IF message # ""
        THEN [message |-> message, symbol_table |-> st]
        ELSE [message |-> "",
              symbol_table |->
                  [st EXCEPT !.constants =
                       Append(@, [name |-> decl.name,
                                  type_annot |-> decl.type_annot,
                                  value |-> text])]]

----------------------------------------------------------------------------
(* OpCode *)

Load(a1, a2) == [op |-> "Load", arg1 |-> a1, arg2 |-> a2]
Store(a1, a2) == [op |-> "Store", arg1 |-> a1, arg2 |-> a2]
PrintReg(a1) == [op |-> "Print", arg1 |-> a1]
Not(v) == [op |-> "Not", value |-> v]
Halt == [op |-> "Halt"]
Arith(o, a1, a2, a3) == [op |-> o, arg1 |-> a1, arg2 |-> a2, arg3 |-> a3]

\* main.rs names the immediate forms LoadImm and StoreImm, opcode.rs names
\* them LoadIntConst and StoreIntConst
LoadImm(g, a1, a2) ==
    [op |-> IF g = "main" THEN "LoadImm" ELSE "LoadIntConst",
     arg1 |-> a1, arg2 |-> a2]

StoreImm(g, a1, a2) ==
    [op |-> IF g = "main" THEN "StoreImm" ELSE "StoreIntConst",
     arg1 |-> a1, arg2 |-> a2]

LoadStringConst(a1, a2) == [op |-> "LoadStringConst", arg1 |-> a1, text |-> a2]
StoreStringConst(a1, a2) ==
    [op |-> "StoreStringConst", arg1 |-> a1, text |-> a2]

\* the OpCode variant each operation lowers to
OpCodeOf(op) ==
    CASE op = "add" -> "Add"
      [] op = "sub" -> "Sub"
      [] op = "concat" -> "Concat"
      [] op = "and" -> "And"
      [] op = "or" -> "Or"

\* the panics of Option::unwrap on None and of Result::unwrap on Err
UnwrapNone == "unwrap on None"
UnwrapErr == "unwrap on Err"

Emitted(c) == [message |-> "", code |-> c]
Aborted(m, c) == [message |-> m, code |-> c]

\* a generation step followed by another: the second runs only when the
\* first did not panic, and the pushes of both stay in op_codes
Then(first, second) ==
    IF first.message # "" THEN first
    ELSE [message |-> second.message, code |-> first.code \o second.code]

\* let target_index = ...position(|v| v.name == name).unwrap(), then the
\* pushes that use it
WithTarget(st, name, code) ==
    IF position(st.variables, name) < 0 THEN Aborted(UnwrapNone, <<>>)
    ELSE Emitted(code)

\* a Name that is looked up in the constants first and in the variables
\* next, loaded into register reg
NameToRegister(g, st, name, reg) ==
    IF found(st.constants, name)
    THEN LET parsed == parse(find(st.constants, name).value)
         IN  IF parsed.ok THEN Emitted(<<LoadImm(g, reg, parsed.value)>>)
             ELSE Aborted(UnwrapErr, <<>>)
    ELSE IF position(st.variables, name) < 0 THEN Aborted(UnwrapNone, <<>>)
         ELSE Emitted(<<Load(reg, position(st.variables, name))>>)

----------------------------------------------------------------------------
(* code_gen of main.rs *)

\* an operand of Plus, Minus, And, Or, Not into register reg
MainOperand(st, op, operand, reg) ==
    CASE operand.kind = "Int" /\ OperandKind(op) = "Int" ->
            Emitted(<<LoadImm("main", reg, operand.value)>>)
      [] operand.kind = "UpName" /\ OperandKind(op) = "UpName" ->
            IF operand.name = TrueName
            THEN Emitted(<<LoadImm("main", reg, 1)>>)
            ELSE IF operand.name = FalseName
                 THEN Emitted(<<LoadImm("main", reg, 0)>>)
                 ELSE Aborted("Invalid value", <<>>)
      [] operand.kind = "Name" ->
            IF position(st.variables, operand.name) < 0
            THEN Aborted(UnwrapNone, <<>>)
            ELSE Emitted(<<Load(reg, position(st.variables, operand.name))>>)
      [] OTHER -> Aborted("Invalid value", <<>>)

MainLet(st, stmt) ==
    LET name == stmt.name
        value == stmt.value
        target == position(st.variables, name)
    IN  CASE value.kind = "Name" ->
                IF found(st.constants, value.name)
                THEN Then(WithTarget(st, name, <<>>),
                          Then(NameToRegister("main", st, value.name, 1),
                               Emitted(<<Store(target, 1)>>)))
                ELSE Then(NameToRegister("main", st, value.name, 1),
                          WithTarget(st, name, <<Store(target, 1)>>))
          [] value.kind = "UpName" ->
                IF value.name = TrueName
                THEN WithTarget(st, name, <<StoreImm("main", target, 1)>>)
                ELSE IF value.name = FalseName
                     THEN WithTarget(st, name, <<StoreImm("main", target, 0)>>)
                     ELSE Aborted("Invalid value", <<>>)
          [] value.kind = "Int" ->
                WithTarget(st, name, <<StoreImm("main", target, value.value)>>)
          [] value.kind = "Op" /\ value.op \in {"add", "sub", "and", "or"} ->
                Then(MainOperand(st, value.op, value.args[1], 1),
                     Then(MainOperand(st, value.op, value.args[2], 2),
                          Then(Emitted(<<Arith(OpCodeOf(value.op), 3, 1, 2)>>),
                               WithTarget(st, name, <<Store(target, 3)>>))))
          [] value.kind = "Op" /\ value.op = "not" ->
                Then(MainOperand(st, value.op, value.args[1], 1),
                     Then(Emitted(<<Not(1)>>),
                          WithTarget(st, name, <<Store(target, 1)>>)))
          [] OTHER -> Aborted("Invalid value", <<>>)

\* a faulty variant of PrintName: the value is loaded and never printed
PrintNameSilent(g, st, arg) == NameToRegister(g, st, arg.name, 1)

\* Print of a Name: the constant's value or the variable, through register 1
PrintName(g, st, arg) ==
    Then(NameToRegister(g, st, arg.name, 1), Emitted(<<PrintReg(1)>>))

\* Print of True or False
PrintUpName(arg) ==
    IF arg.name = TrueName THEN Emitted(<<PrintReg(1)>>)
    ELSE IF arg.name = FalseName THEN Emitted(<<PrintReg(0)>>)
         ELSE Aborted("Invalid value", <<>>)

MainCall(st, stmt) ==
    LET arg == stmt.args[1]
    IN  CASE stmt.name = "print_integer" ->
                (CASE arg.kind = "Int" -> Emitted(<<PrintReg(arg.value)>>)
                   [] arg.kind = "Name" -> PrintName("main", st, arg)
                   [] OTHER -> Aborted("Invalid value", <<>>))
          [] stmt.name = "print_bool" ->
                (CASE arg.kind = "UpName" -> PrintUpName(arg)
                   [] arg.kind = "Name" -> PrintName("main", st, arg)
                   [] OTHER -> Aborted("Invalid value", <<>>))
          [] OTHER -> Aborted("Invalid function name", <<>>)

----------------------------------------------------------------------------
(* code_gen of code_gen.rs *)

\* an argument of add, sub, concat, and, or, not: the pushes it makes and
\* the register index it hands to the operation's OpCode
DocArgument(st, op, arg, reg) ==
    CASE arg.kind = "Int" /\ op \in {"add", "sub"} ->
            [message |-> "", code |-> <<>>, register |-> arg.value]
      [] arg.kind = "String" /\ op = "concat" ->
            [message |-> "", code |-> <<LoadStringConst(reg, arg.text)>>,
             register |-> reg]
      [] arg.kind = "UpName" /\ op \in {"and", "or", "not"} ->
            IF arg.name = TrueName
            THEN [message |-> "", code |-> <<>>, register |-> 1]
            ELSE IF arg.name = FalseName
                 THEN [message |-> "", code |-> <<>>, register |-> 0]
                 ELSE [message |-> "Invalid value", code |-> <<>>,
                       register |-> 0]
      [] arg.kind = "Name" /\ found(st.constants, arg.name) ->
            LET constant == find(st.constants, arg.name)
                parsed == parse(constant.value)
            IN  CASE op = "concat" ->
                        [message |-> "",
                         code |-> <<LoadStringConst(reg, constant.value)>>,
                         register |-> reg]
                  [] op # "concat" /\ ~parsed.ok ->
                        [message |-> UnwrapErr, code |-> <<>>, register |-> 0]
                  [] op = "add" /\ parsed.ok ->
                        [message |-> "",
                         code |-> <<LoadImm("document", reg, parsed.value)>>,
                         register |-> reg]
                  [] OTHER ->
                        [message |-> "", code |-> <<>>,
                         register |-> parsed.value]
      [] arg.kind = "Name" /\ ~found(st.constants, arg.name) ->
            IF position(st.variables, arg.name) < 0
            THEN [message |-> UnwrapNone, code |-> <<>>, register |-> 0]
            ELSE [message |-> "",
                  code |-> <<Load(reg, position(st.variables, arg.name))>>,
                  register |-> reg]
      [] OTHER -> [message |-> "Invalid value", code |-> <<>>, register |-> 0]

DocLet(st, stmt) ==
    LET name == stmt.name
        value == stmt.value
        target == position(st.variables, name)
    IN  CASE value.kind = "Name" ->
                IF found(st.constants, value.name)
                THEN Then(WithTarget(st, name, <<>>),
                          Then(NameToRegister("document", st, value.name, 1),
                               Emitted(<<Store(target, 1)>>)))
                ELSE Then(NameToRegister("document", st, value.name, 1),
                          WithTarget(st, name, <<Store(target, 1)>>))
          [] value.kind = "UpName" ->
                IF value.name = TrueName
                THEN WithTarget(st, name, <<StoreImm("document", target, 1)>>)
                ELSE IF value.name = FalseName
                     THEN WithTarget(st, name,
                                     <<StoreImm("document", target, 0)>>)
                     ELSE Aborted("Invalid value", <<>>)
          [] value.kind = "Int" ->
                WithTarget(st, name,
                           <<StoreImm("document", target, value.value)>>)
          [] value.kind = "String" ->
                WithTarget(st, name, <<StoreStringConst(target, value.text)>>)
          [] value.kind = "Op" /\ value.op \in BinaryOps ->
                LET arg1 == DocArgument(st, value.op, value.args[1], 1)
                    arg2 == DocArgument(st, value.op,
                                        value.args[Len(value.args)], 2)
                IN  Then(arg1,
                         Then(arg2,
                              WithTarget(st, name,
                                  <<Arith(OpCodeOf(value.op), 3,
                                          arg1.register, arg2.register),
                                    Store(target, 3)>>)))
          [] value.kind = "Op" /\ value.op = "not" ->
                LET arg == DocArgument(st, value.op, value.args[1], 1)
                IN  Then(arg,
                         WithTarget(st, name,
                                    <<Not(arg.register), Store(target, 1)>>))
          [] OTHER -> Aborted("Invalid value", <<>>)

DocCall(st, stmt) ==
    LET arg == stmt.args[1]
    IN  CASE stmt.name = "print_integer" ->
                (CASE arg.kind = "Int" ->
                        Emitted(<<LoadImm("document", 1, arg.value),
                                  PrintReg(1)>>)
                   [] arg.kind = "Name" -> PrintName("document", st, arg)
                   [] OTHER -> Aborted("Invalid value", <<>>))
          [] stmt.name = "print_bool" ->
                (CASE arg.kind = "UpName" -> PrintUpName(arg)
                   [] arg.kind = "Name" -> PrintName("document", st, arg)
                   [] OTHER -> Aborted("Invalid value", <<>>))
          [] stmt.name = "print_string" ->
                (CASE arg.kind = "String" ->
                        Emitted(<<LoadStringConst(1, arg.text), PrintReg(1)>>)
                   [] arg.kind = "Name" ->
                        IF position(st.variables, arg.name) < 0
                        THEN Aborted(UnwrapNone, <<>>)
                        ELSE Emitted(<<Load(1, position(st.variables,
                                                        arg.name)),
                                       PrintReg(1)>>)
                   [] OTHER -> Aborted("Invalid value", <<>>))
          [] OTHER -> Aborted("Invalid function name", <<>>)

\* code_gen on one statement of the function body, by either generator
CodeGenResult(g, st, stmt) ==
    CASE g = "main" /\ stmt.kind = "Let" -> MainLet(st, stmt)
      [] g = "main" /\ stmt.kind = "Call" -> MainCall(st, stmt)
      [] g = "document" /\ stmt.kind = "Let" -> DocLet(st, stmt)
      [] g = "document" /\ stmt.kind = "Call" -> DocCall(st, stmt)
      [] OTHER -> Aborted("Invalid code", <<>>)

----------------------------------------------------------------------------
(* interpret *)

\* a register or variable holds an integer; the string OpCodes of opcode.rs
\* make it hold a string
IntValue(n) == [tag |-> "Int", int |-> n]
StringValue(s) == [tag |-> "String", str |-> s]

InitialRegisters == [r \in 0..(RegisterCount - 1) |-> IntValue(0)]

\* HashMap::insert
insert(map, key, value) ==
    [k \in DOMAIN map \cup {key} |-> IF k = key THEN value ELSE map[k]]

IndexOutOfBounds == "index out of bounds"
TagMismatch == "tag mismatch"

InBank(r) == r >= 0 /\ r < RegisterCount

\* the registers an OpCode indexes, in the order interpret indexes them
Indexed(instr) ==
    CASE instr.op \in {"Add", "Sub", "And", "Or", "Concat"} ->
            <<instr.arg2, instr.arg3, instr.arg1>>
      [] instr.op = "Not" -> <<instr.value>>
      [] instr.op \in {"Load", "LoadImm", "LoadIntConst", "LoadStringConst",
                       "Print"} -> <<instr.arg1>>
      [] instr.op = "Move" -> <<instr.arg2, instr.arg1>>
      [] instr.op = "Store" -> <<instr.arg2>>
      [] OTHER -> <<>>

\* the registers an OpCode reads as integers
IntOperands(instr) ==
    CASE instr.op \in {"Add", "Sub", "And", "Or"} -> {instr.arg2, instr.arg3}
      [] instr.op = "Not" -> {instr.value}
      [] OTHER -> {}

\* whether the arithmetic of the OpCode leaves the range of usize
Overflows(instr, regs) ==
    /\ instr.op \in {"Add", "Sub"}
    /\ InBank(instr.arg2) /\ InBank(instr.arg3)
    /\ regs[instr.arg2].tag = "Int" /\ regs[instr.arg3].tag = "Int"
    /\ IF instr.op = "Add"
       THEN regs[instr.arg2].int + regs[instr.arg3].int >= Modulus
       ELSE regs[instr.arg2].int < regs[instr.arg3].int

\* bitwise & and | of two words, ^ 1 of a word
RECURSIVE BitAnd(_, _)
BitAnd(a, b) ==
    IF a = 0 \/ b = 0 THEN 0
    ELSE 2 * BitAnd(a \div 2, b \div 2)
         + (IF a % 2 = 1 /\ b % 2 = 1 THEN 1 ELSE 0)

RECURSIVE BitOr(_, _)
BitOr(a, b) ==
    IF a = 0 THEN b
    ELSE IF b = 0 THEN a
         ELSE 2 * BitOr(a \div 2, b \div 2)
              + (IF a % 2 = 1 \/ b % 2 = 1 THEN 1 ELSE 0)

XorOne(a) == IF a % 2 = 1 THEN a - 1 ELSE a + 1

\* a faulty variant of Compute: - stops at 0 and + at the largest word
ComputeSaturating(op, a, b) ==
    CASE op = "Add" -> IF a + b >= Modulus THEN Modulus - 1 ELSE a + b
      [] op = "Sub" -> IF a < b THEN 0 ELSE a - b
      [] op = "And" -> BitAnd(a, b)
      [] op = "Or" -> BitOr(a, b)

\* the word an arithmetic or logic OpCode computes from the words a and b;
\* with overflow checks off, + and - wrap
Compute(op, a, b) ==
    CASE op = "Add" -> (a + b) % Modulus
      [] op = "Sub" -> (a - b + Modulus) % Modulus
      [] op = "And" -> BitAnd(a, b)
      [] op = "Or" -> BitOr(a, b)

\* println!("{}", registers[arg1])
Render(v) == IF v.tag = "Int" THEN to_string(v.int) ELSE v.str

Continue(regs, vmap, printed) ==
    [fault |-> "", registers |-> regs, variables |-> vmap,
     printed |-> printed, halted |-> FALSE]

Fault(m, regs, vmap) ==
    [fault |-> m, registers |-> regs, variables |-> vmap,
     printed |-> <<>>, halted |-> FALSE]

\* the string OpCodes of opcode.rs: LoadStringConst, StoreStringConst, Concat
ExecString(instr, regs, vmap) ==
    CASE instr.op = "LoadStringConst" ->
            Continue([regs EXCEPT ![instr.arg1] = StringValue(instr.text)],
                     vmap, <<>>)
      [] instr.op = "StoreStringConst" ->
            Continue(regs, insert(vmap, instr.arg1, StringValue(instr.text)),
                     <<>>)
      [] instr.op = "Concat" ->
            IF regs[instr.arg2].tag = "String" /\ regs[instr.arg3].tag = "String"
            THEN Continue([regs EXCEPT ![instr.arg1] =
                               StringValue(regs[instr.arg2].str
                                           \o regs[instr.arg3].str)],
                          vmap, <<>>)
            ELSE Fault(TagMismatch, regs, vmap)

\* one turn of the loop of interpret on the fetched OpCode; checks tells
\* whether the build panics on arithmetic overflow
Exec(instr, regs, vmap, checks) ==
    LET idx == Indexed(instr)
    IN  IF \E i \in 1..Len(idx) : ~InBank(idx[i])
        THEN Fault(IndexOutOfBounds, regs, vmap)
        ELSE IF \E r \in IntOperands(instr) : regs[r].tag # "Int"
        THEN Fault(TagMismatch, regs, vmap)
        ELSE IF Overflows(instr, regs) /\ checks = "on"
        THEN Fault("arithmetic overflow", regs, vmap)
        ELSE
        CASE instr.op \in {"Add", "Sub", "And", "Or"} ->
                Continue([regs EXCEPT ![instr.arg1] =
                              IntValue(Compute(instr.op, regs[instr.arg2].int,
                                               regs[instr.arg3].int))],
                         vmap, <<>>)
          [] instr.op = "Not" ->
                Continue([regs EXCEPT ![instr.value] =
                              IntValue(XorOne(regs[instr.value].int))],
                         vmap, <<>>)
          [] instr.op = "Load" ->
                IF instr.arg2 \in DOMAIN vmap
                THEN Continue([regs EXCEPT ![instr.arg1] = vmap[instr.arg2]],
                              vmap, <<>>)
                ELSE Fault(UnwrapNone, regs, vmap)
          [] instr.op \in {"LoadImm", "LoadIntConst"} ->
                Continue([regs EXCEPT ![instr.arg1] = IntValue(instr.arg2)],
                         vmap, <<>>)
          [] instr.op = "Move" ->
                Continue([regs EXCEPT ![instr.arg1] = regs[instr.arg2]],
                         vmap, <<>>)
          [] instr.op = "Store" ->
                Continue(regs, insert(vmap, instr.arg1, regs[instr.arg2]),
                         <<>>)
          [] instr.op \in {"StoreImm", "StoreIntConst"} ->
                Continue(regs, insert(vmap, instr.arg1, IntValue(instr.arg2)),
                         <<>>)
          [] instr.op = "Print" ->
                Continue(regs, vmap, <<Render(regs[instr.arg1])>>)
          [] instr.op = "Halt" ->
                [Continue(regs, vmap, <<>>) EXCEPT !.halted = TRUE]
          [] OTHER -> ExecString(instr, regs, vmap)

----------------------------------------------------------------------------
(* The pipeline of main() *)

Generators == {"main", "document"}

Init ==
    /\ stage = "analyze_constants"
    /\ document = [constants |-> <<>>, body |-> <<>>]
    /\ symbol_table = [variables |-> <<>>, functions |-> <<>>,
                       constants |-> <<>>]
    /\ generator = "none"
    /\ cursor = 0
    /\ op_codes = <<>>
    /\ registers = InitialRegisters
    /\ variables = <<>>
    /\ pc = 0
    /\ steps = 0
    /\ output = <<>>
    /\ overflow_checks = "unset"
    /\ error = NoError

\* analyze on the Const decl, read next from the top-level Block
AnalyzeConstOf(decl) ==
    LET r == AnalyzeConstResult(symbol_table, decl)
    IN  /\ document' = [document EXCEPT !.constants = Append(@, decl)]
        /\ symbol_table' = r.symbol_table
        /\ stage' = IF r.message = "" THEN stage ELSE "aborted"
        /\ error' = IF r.message = "" THEN error
                    ELSE Panic("analyze", r.message)
        /\ UNCHANGED <<generator, cursor, op_codes, registers, variables, pc,
                       steps, output, overflow_checks>>

\* analyze on the next Const of the top-level Block
AnalyzeConst ==
    /\ stage = "analyze_constants"
    /\ Len(document.constants) < MaxConsts
    /\ \E decl \in ConstDecls : AnalyzeConstOf(decl)

\* analyze enters the Fn
AnalyzeFn ==
    /\ stage = "analyze_constants"
    /\ stage' = "analyze_body"
    /\ symbol_table' = [symbol_table EXCEPT
                            !.functions = Append(@, [name |-> "main"])]
    /\ UNCHANGED <<document, generator, cursor, op_codes, registers,
                   variables, pc, steps, output, overflow_checks, error>>

\* a faulty variant of AnalyzeStatementOf: the panic is caught and recorded,
\* and analysis goes on with the next statement
AnalyzeStatementOfResuming(stmt) ==
    LET r == AnalyzeStatementResult(symbol_table, stmt)
    IN  /\ document' = [document EXCEPT !.body = Append(@, stmt)]
        /\ symbol_table' = r.symbol_table
        /\ stage' = stage
        /\ error' = IF r.message = "" THEN error
                    ELSE Panic("analyze", r.message)
        /\ UNCHANGED <<generator, cursor, op_codes, registers, variables, pc,
                       steps, output, overflow_checks>>

\* a faulty variant of AnalyzeStatementOf: each statement is lowered as soon
\* as it is analysed
AnalyzeStatementOfEmitting(stmt) ==
    LET r == AnalyzeStatementResult(symbol_table, stmt)
    IN  /\ document' = [document EXCEPT !.body = Append(@, stmt)]
        /\ symbol_table' = r.symbol_table
        /\ stage' = IF r.message = "" THEN stage ELSE "aborted"
        /\ error' = IF r.message = "" THEN error
                    ELSE Panic("analyze", r.message)
        /\ op_codes' = IF r.message # "" THEN op_codes
                       ELSE op_codes
                            \o CodeGenResult("main", r.symbol_table, stmt).code
        /\ UNCHANGED <<generator, cursor, registers, variables, pc, steps,
                       output, overflow_checks>>

\* analyze on the statement stmt, read next from the function body
AnalyzeStatementOf(stmt) ==
    LET r == AnalyzeStatementResult(symbol_table, stmt)
    IN  /\ document' = [document EXCEPT !.body = Append(@, stmt)]
        /\ symbol_table' = r.symbol_table
        /\ stage' = IF r.message = "" THEN stage ELSE "aborted"
        /\ error' = IF r.message = "" THEN error
                    ELSE Panic("analyze", r.message)
        /\ UNCHANGED <<generator, cursor, op_codes, registers, variables, pc,
                       steps, output, overflow_checks>>

\* analyze on the next statement of the function body
AnalyzeStatement ==
    /\ stage = "analyze_body"
    /\ Len(document.body) < MaxStmts
    /\ \E stmt \in Statements : AnalyzeStatementOf(stmt)

\* analyze returns to main at the end of the function body
AnalyzeReturn ==
    /\ stage = "analyze_body"
    /\ stage' = "code_gen"
    /\ UNCHANGED <<document, symbol_table, generator, cursor, op_codes,
                   registers, variables, pc, steps, output, overflow_checks,
                   error>>

\* code generation starts: code_gen of main.rs enters the Fn and pushes it
\* on symbol_table.functions, code_gen_document takes the first function
CodeGenFn ==
    /\ stage = "code_gen"
    /\ generator = "none"
    /\ \E g \in Generators :
         /\ generator' = g
         /\ symbol_table' =
                IF g = "main"
                THEN [symbol_table EXCEPT
                          !.functions = Append(@, [name |-> "main"])]
                ELSE symbol_table
    /\ UNCHANGED <<stage, document, cursor, op_codes, registers, variables,
                   pc, steps, output, overflow_checks, error>>

\* code_gen on the next statement of the function body
CodeGenStatement ==
    /\ stage = "code_gen"
    /\ generator # "none"
    /\ cursor < Len(document.body)
    /\ LET r == CodeGenResult(generator, symbol_table,
                              document.body[cursor + 1])
       IN  /\ op_codes' = op_codes \o r.code
           /\ cursor' = cursor + 1
           /\ stage' = IF r.message = "" THEN stage ELSE "aborted"
           /\ error' = IF r.message = "" THEN error
                       ELSE Panic("code_gen", r.message)
    /\ UNCHANGED <<document, symbol_table, generator, registers, variables,
                   pc, steps, output, overflow_checks>>

\* a faulty variant of CodeGenHalt: the Halt is pushed twice, as a Block arm
\* that pushes its own Halt under a caller that pushes one too would
CodeGenHaltTwice ==
    /\ stage = "code_gen"
    /\ generator # "none"
    /\ cursor = Len(document.body)
    /\ op_codes' = op_codes \o <<Halt, Halt>>
    /\ stage' = "interpret"
    /\ UNCHANGED <<document, symbol_table, generator, cursor, registers,
                   variables, pc, steps, output, overflow_checks, error>>

\* the Halt pushed after the last statement; main then calls interpret
CodeGenHalt ==
    /\ stage = "code_gen"
    /\ generator # "none"
    /\ cursor = Len(document.body)
    /\ op_codes' = Append(op_codes, Halt)
    /\ stage' = "interpret"
    /\ UNCHANGED <<document, symbol_table, generator, cursor, registers,
                   variables, pc, steps, output, overflow_checks, error>>

\* a faulty variant of Step: the end of op_codes is a clean stop
StepStoppingAtEnd ==
    /\ stage = "interpret"
    /\ IF pc >= Len(op_codes)
       THEN /\ stage' = "done"
            /\ UNCHANGED <<registers, variables, pc, steps, output,
                           overflow_checks, error>>
       ELSE \E checks \in {"on", "off"} :
              LET instr == op_codes[pc + 1]
                  r == Exec(instr, registers, variables, checks)
              IN  /\ overflow_checks \in {"unset", checks}
                  /\ overflow_checks' =
                         IF Overflows(instr, registers) THEN checks
                         ELSE overflow_checks
                  /\ steps' = steps + 1
                  /\ registers' = r.registers
                  /\ variables' = r.variables
                  /\ output' = output \o r.printed
                  /\ pc' = IF r.fault = "" /\ ~r.halted THEN pc + 1 ELSE pc
                  /\ stage' = CASE r.fault # "" -> "aborted"
                                [] r.fault = "" /\ r.halted -> "done"
                                [] OTHER -> stage
                  /\ error' = IF r.fault = "" THEN error
                              ELSE Panic("interpret", r.fault)
    /\ UNCHANGED <<document, symbol_table, generator, cursor, op_codes>>

\* one turn of the loop of interpret
Step ==
    /\ stage = "interpret"
    /\ IF pc >= Len(op_codes)
       THEN /\ stage' = "aborted"
            /\ error' = Panic("interpret", IndexOutOfBounds)
            /\ UNCHANGED <<registers, variables, pc, steps, output,
                           overflow_checks>>
       ELSE \E checks \in {"on", "off"} :
              LET instr == op_codes[pc + 1]
                  r == Exec(instr, registers, variables, checks)
              IN  /\ overflow_checks \in {"unset", checks}
                  /\ overflow_checks' =
                         IF Overflows(instr, registers) THEN checks
                         ELSE overflow_checks
                  /\ steps' = steps + 1
                  /\ registers' = r.registers
                  /\ variables' = r.variables
                  /\ output' = output \o r.printed
                  /\ pc' = IF r.fault = "" /\ ~r.halted THEN pc + 1 ELSE pc
                  /\ stage' = CASE r.fault # "" -> "aborted"
                                [] r.fault = "" /\ r.halted -> "done"
                                [] OTHER -> stage
                  /\ error' = IF r.fault = "" THEN error
                              ELSE Panic("interpret", r.fault)
    /\ UNCHANGED <<document, symbol_table, generator, cursor, op_codes>>

Next ==
    \/ AnalyzeConst
    \/ AnalyzeFn
    \/ AnalyzeStatement
    \/ AnalyzeReturn
    \/ CodeGenFn
    \/ CodeGenStatement
    \/ CodeGenHalt
    \/ Step

Spec == Init /\ [][Next]_vars

----------------------------------------------------------------------------
(* The three end-to-end programs: integers (A), strings (B), booleans (C) *)

Hello == <<"H", "e", "l", "l", "o">>
World == <<"W", "o", "r", "l", "d">>
Space == <<" ">>

ScenarioA ==
    [constants |-> <<Const("ctest", "Integer", IntLit(5))>>,
     body |-> <<Let("one", "Integer", IntLit(1)),
                Let("five", "Integer", Op("add", <<Name("one"), IntLit(4)>>)),
                Let("itest", "Integer", Op("sub", <<Name("five"), IntLit(4)>>)),
                Let("ctest_add", "Integer",
                    Op("add", <<IntLit(1), Name("ctest")>>)),
                Call("print_integer", <<Name("itest")>>),
                Call("print_integer", <<Name("ctest_add")>>)>>]

ScenarioB ==
    [constants |-> <<Const("ctest", "String", StringLit(Hello))>>,
     body |-> <<Let("one", "String", StringLit(World)),
                Let("five", "String",
                    Op("concat", <<Name("one"), StringLit(Space)>>)),
                Let("itest", "String",
                    Op("concat", <<Name("five"), Name("ctest")>>)),
                Call("print_string", <<Name("itest")>>)>>]

ScenarioC ==
    [constants |-> <<Const("ctest", "Bool", UpName(TrueName))>>,
     body |-> <<Let("one", "Bool", UpName(FalseName)),
                Let("five", "Bool",
                    Op("and", <<Name("one"), UpName(TrueName)>>)),
                Let("itest", "Bool", Op("or", <<Name("five"), Name("ctest")>>)),
                Let("not_itest", "Bool", Op("not", <<Name("itest")>>)),
                Call("print_bool", <<Name("not_itest")>>)>>]

Scenarios == <<ScenarioA, ScenarioB, ScenarioC>>

\* analyze on the Const of one of the three programs
ScenarioConst ==
    /\ stage = "analyze_constants"
    /\ Len(document.constants) = 0
    /\ \E i \in 1..Len(Scenarios) : AnalyzeConstOf(Scenarios[i].constants[1])

\* analyze on the next statement of the program whose Const was read
ScenarioStatement ==
    /\ stage = "analyze_body"
    /\ Len(document.constants) = 1
    /\ \E i \in 1..Len(Scenarios) :
         /\ Scenarios[i].constants[1].type_annot
                = document.constants[1].type_annot
         /\ Len(document.body) < Len(Scenarios[i].body)
         /\ AnalyzeStatementOf(Scenarios[i].body[Len(document.body) + 1])

ScenarioNext ==
    \/ ScenarioConst
    \/ AnalyzeFn
    \/ ScenarioStatement
    \/ AnalyzeReturn
    \/ CodeGenFn
    \/ CodeGenStatement
    \/ CodeGenHalt
    \/ Step

\* the pipeline on the three programs and on their leading parts
ScenarioSpec == Init /\ [][ScenarioNext]_vars

----------------------------------------------------------------------------
(* The passes as functions of the whole program *)

\* the loop of analyze over the constants
RECURSIVE AnalyzeConstants(_, _)
AnalyzeConstants(st, decls) ==
    IF Len(decls) = 0 THEN [message |-> "", symbol_table |-> st]
    ELSE LET r == AnalyzeConstResult(st, Head(decls))
         IN  IF r.message # "" THEN r
             ELSE AnalyzeConstants(r.symbol_table, Tail(decls))

\* the loop of analyze over the function body
RECURSIVE AnalyzeBody(_, _)
AnalyzeBody(st, body) ==
    IF Len(body) = 0 THEN [message |-> "", symbol_table |-> st]
    ELSE LET r == AnalyzeStatementResult(st, Head(body))
         IN  IF r.message # "" THEN r
             ELSE AnalyzeBody(r.symbol_table, Tail(body))

\* the loop of code_gen over the function body, and the final Halt
RECURSIVE CodeGenBody(_, _, _)
CodeGenBody(g, st, body) ==
    IF Len(body) = 0 THEN Emitted(<<Halt>>)
    ELSE Then(CodeGenResult(g, st, Head(body)),
              CodeGenBody(g, st, Tail(body)))

\* the loop of interpret from pc on; the lines it prints
RECURSIVE Interpret(_, _, _, _, _)
Interpret(code, at, regs, vmap, checks) ==
    IF at >= Len(code) THEN <<>>
    ELSE LET r == Exec(code[at + 1], regs, vmap, checks)
         IN  IF r.fault # "" \/ r.halted THEN r.printed
             ELSE r.printed
                  \o Interpret(code, at + 1, r.registers, r.variables, checks)

\* the lines main() prints for a program
Pipeline(g, decls, body, checks) ==
    LET empty == [variables |-> <<>>, functions |-> <<>>, constants |-> <<>>]
        consts == AnalyzeConstants(empty, decls)
        analyzed == AnalyzeBody(consts.symbol_table, body)
        generated == CodeGenBody(g, analyzed.symbol_table, body)
    IN  IF consts.message # "" \/ analyzed.message # ""
           \/ generated.message # ""
        THEN <<>>
        ELSE Interpret(generated.code, 0, InitialRegisters, <<>>, checks)

----------------------------------------------------------------------------
(* Vocabulary of the properties *)

body == document.body

Last(seq) == seq[Len(seq)]

\* the number of Let statements among the first k statements of the body
RECURSIVE LetOrdinal(_)
LetOrdinal(k) ==
    IF k = 0 THEN 0
    ELSE LetOrdinal(k - 1) + (IF body[k].kind = "Let" THEN 1 ELSE 0)

AnalysisFailed == stage = "aborted" /\ error.stage = "analyze"
CodeGenFailed == stage = "aborted" /\ error.stage = "code_gen"
InterpretFailed == stage = "aborted" /\ error.stage = "interpret"

\* analyze has returned to main without a panic
AnalysisPassed ==
    stage \in {"code_gen", "interpret", "done"} \/ CodeGenFailed
    \/ InterpretFailed

\* the statement analyze has just worked on, while or right after analysis
JustAnalyzed(k) ==
    /\ k = Len(body)
    /\ stage = "analyze_body" \/ AnalysisFailed

\* code_gen has just lowered statement k without a panic
JustLowered(k) ==
    /\ stage = "code_gen"
    /\ generator # "none"
    /\ k = cursor
    /\ k >= 1

StoreOps == {"Store", "StoreImm", "StoreIntConst", "StoreStringConst"}

----------------------------------------------------------------------------
(* C1: the store emitted for the Nth Let of the function addresses slot    *)
(* N-1, also when the function declares a name twice.                      *)
C1_SlotDeterminism ==
    \A k \in 1..Len(body) :
        (JustLowered(k) /\ body[k].kind = "Let")
        => /\ Last(op_codes).op \in StoreOps
           /\ Last(op_codes).arg1 = LetOrdinal(k) - 1

----------------------------------------------------------------------------
(* Replacing the references to the constants by their literal values *)

IsConstant(name) == \E i \in 1..Len(document.constants) :
                        document.constants[i].name = name

ConstLiteral(name) ==
    document.constants[CHOOSE i \in 1..Len(document.constants) :
        /\ document.constants[i].name = name
        /\ \A j \in 1..(i - 1) : document.constants[j].name # name].value

InlineNode(node) ==
    IF node.kind = "Name" /\ IsConstant(node.name)
    THEN ConstLiteral(node.name) ELSE node

InlineValue(value) ==
    IF value.kind = "Op"
    THEN Op(value.op, [i \in DOMAIN value.args |-> InlineNode(value.args[i])])
    ELSE InlineNode(value)

InlineStatement(stmt) ==
    IF stmt.kind = "Let"
    THEN Let(stmt.name, stmt.type_annot, InlineValue(stmt.value))
    ELSE Call(stmt.name, [i \in DOMAIN stmt.args |-> InlineNode(stmt.args[i])])

Inlined == [k \in 1..Len(body) |-> InlineStatement(body[k])]

\* some statement of the body names a constant
ReferencesConstant == Inlined # body

\* no Let declares the name of a constant: every such name means the constant
NoShadowing == \A k \in 1..Len(body) :
                   body[k].kind = "Let" => ~IsConstant(body[k].name)

BuildProfiles == IF overflow_checks = "unset" THEN {"on", "off"}
                 ELSE {overflow_checks}

(* C2: a program that references a constant prints the same lines as the   *)
(* program with every reference replaced by the constant's literal value.  *)
C2_ConstantInlining ==
    (stage \in {"done", "aborted"} /\ generator # "none"
     /\ ReferencesConstant /\ NoShadowing)
    => \A checks \in BuildProfiles :
           Pipeline(generator, document.constants, Inlined, checks) = output

(* C3: after analysis accepts a program, interpreting the generated code   *)
(* never faults: no read of a slot never stored, no register index outside *)
(* the bank, no program counter past the end, no mismatched operands.      *)
C3_NoRuntimeFault == AnalysisPassed => ~InterpretFailed

(* C4: after analysis accepts a program, code generation completes without *)
(* an error.                                                               *)
C4_CodeGenNeverFails == AnalysisPassed => ~CodeGenFailed

----------------------------------------------------------------------------
(* The Name references of a Let, each with the register code_gen loads it  *)
(* into: the initializer and a left operand into 1, a right operand into 2 *)

NameReferences(stmt) ==
    IF stmt.kind # "Let" THEN {}
    ELSE IF stmt.value.kind = "Name" THEN {<<stmt.value.name, 1>>}
    ELSE IF stmt.value.kind = "Op"
         THEN {<<stmt.value.args[i].name, i>> :
                 i \in {j \in DOMAIN stmt.value.args :
                          stmt.value.args[j].kind = "Name"}}
    ELSE {}

\* the variables analyze had pushed when it worked on statement k
VariablesBefore(k) == SubSeq(symbol_table.variables, 1, LetOrdinal(k - 1))

\* the instructions code_gen has just pushed for statement k
JustEmitted(k) ==
    LET n == Len(CodeGenResult(generator, symbol_table, body[k]).code)
    IN  SubSeq(op_codes, Len(op_codes) - n + 1, Len(op_codes))

(* C5: code generation resolves every Name reference to the entry analysis *)
(* resolved it to: analysis resolves a Name to a variable, so the code     *)
(* loads that variable's slot, also when a constant has the same name.     *)
C5_ResolutionAgrees ==
    \A k \in 1..Len(body) :
        JustLowered(k)
        => \A ref \in NameReferences(body[k]) :
               LET slot == position(VariablesBefore(k), ref[1])
                   code == JustEmitted(k)
               IN  \E i \in 1..Len(code) : code[i] = Load(ref[2], slot)

(* C6: the interpreter stops on every generated instruction sequence, by   *)
(* executing Halt, after exactly as many steps as there are instructions.  *)
C6_TerminatesInLenSteps ==
    /\ stage = "interpret" => steps < Len(op_codes)
    /\ (stage = "done" \/ InterpretFailed)
       => (stage = "done" /\ steps = Len(op_codes))

----------------------------------------------------------------------------
(* C7: the generated instruction sequence holds exactly one Halt, and it   *)
(* is the last instruction.                                                *)
C7_SingleTrailingHalt ==
    LET halts == {i \in 1..Len(op_codes) : op_codes[i] = Halt}
    IN  IF stage \in {"interpret", "done"} \/ InterpretFailed
        THEN halts = {Len(op_codes)}
        ELSE halts = {}

\* code generation has finished a body of a Let and a print
C7_Witness ==
    /\ stage = "interpret"
    /\ Len(body) = 2
    /\ body[1].kind = "Let"
    /\ body[2].kind = "Call"
    /\ Len(op_codes) >= 3
    /\ Last(op_codes) = Halt

----------------------------------------------------------------------------
\* the type of a literal, and the result type of an operation
IntrinsicType(value) ==
    CASE value.kind = "Int" -> "Integer"
      [] value.kind = "String" -> "String"
      [] value.kind = "UpName" -> "Bool"
      [] value.kind = "Op" /\ value.op \in {"add", "sub"} -> "Integer"
      [] value.kind = "Op" /\ value.op = "concat" -> "String"
      [] value.kind = "Op" /\ value.op \in {"and", "or", "not"} -> "Bool"
      [] OTHER -> "none"

\* a Let whose declared type differs from the type of its literal or from
\* the result type of its operation
Mismatched(stmt) ==
    /\ stmt.kind = "Let"
    /\ IntrinsicType(stmt.value) # "none"
    /\ IntrinsicType(stmt.value) # stmt.type_annot

TypeErrors == {"Type mismatch", "Invalid type"}

(* C8: a Let whose declared type differs from its literal's type or from   *)
(* its operation's result type fails analysis with a type error, and no    *)
(* Variable entry is added for it.                                         *)
C8_TypeMismatchRejected ==
    \A k \in 1..Len(body) :
        Mismatched(body[k])
        => /\ JustAnalyzed(k)
           /\ AnalysisFailed
           /\ error.message \in TypeErrors
           /\ Len(symbol_table.variables) = LetOrdinal(k - 1)

\* analysis has accepted a Let and then rejected a Let that declares an
\* Integer with a Bool operation
C8_Witness ==
    /\ Len(body) = 2
    /\ AnalysisFailed
    /\ body[1].kind = "Let"
    /\ Mismatched(body[2])
    /\ body[2].value.kind = "Op"
    /\ Len(symbol_table.variables) = 1

----------------------------------------------------------------------------
\* the names a Let refers to, in its initializer or in an operand
ReferencedNames(stmt) == {ref[1] : ref \in NameReferences(stmt)}

\* a name declared neither as a constant nor as a variable before statement k
Undeclared(k, name) ==
    /\ ~found(symbol_table.constants, name)
    /\ ~found(VariablesBefore(k), name)

\* the Let refers to an undeclared name
Unresolved(k) == \E name \in ReferencedNames(body[k]) : Undeclared(k, name)

(* C9, as stated: a Let that refers, in its initializer or in an operand,  *)
(* to a name declared neither as a constant nor as an earlier variable     *)
(* fails analysis with the name error.                                     *)
C9_UnresolvedNameError ==
    \A k \in 1..Len(body) :
        (body[k].kind = "Let" /\ Unresolved(k))
        => /\ JustAnalyzed(k)
           /\ AnalysisFailed
           /\ error.message = "Variable not found"

\* an earlier check of the same Let fails: the declared type is not the
\* operation's result type, or the left operand is itself invalid
EarlierFailure(k) ==
    LET value == body[k].value
        st == [symbol_table EXCEPT !.variables = VariablesBefore(k)]
    IN  /\ value.kind = "Op"
        /\ \/ body[k].type_annot # IntrinsicType(value)
           \/ /\ Len(value.args) = 2
              /\ ~(value.args[1].kind = "Name"
                   /\ Undeclared(k, value.args[1].name))
              /\ AnalyzeOperand(st, body[k].type_annot, value.op,
                                value.args[1]) # ""

(* C9, amended: such a Let always fails analysis and adds no Variable; the *)
(* error is the name error unless an earlier check of the same Let fails   *)
(* first, and a Name initializer always fails with the name error.         *)
C9_UnresolvedNameRejected ==
    \A k \in 1..Len(body) :
        (body[k].kind = "Let" /\ Unresolved(k))
        => /\ JustAnalyzed(k)
           /\ AnalysisFailed
           /\ Len(symbol_table.variables) = LetOrdinal(k - 1)
           /\ ~EarlierFailure(k) => error.message = "Variable not found"
           /\ body[k].value.kind = "Name"
              => error.message = "Variable not found"

\* analysis has accepted a Let of y and then rejected an operation on the
\* undeclared x with the name error
C9_Witness ==
    /\ Len(body) = 2
    /\ AnalysisFailed
    /\ body[1].kind = "Let"
    /\ body[2].kind = "Let"
    /\ body[2].value.kind = "Op"
    /\ Unresolved(2)
    /\ error.message = "Variable not found"

----------------------------------------------------------------------------
\* the symbol table under which a Name is looked up first in the constants
\* and then in the variables declared before statement k
ConstantsFirst(k) ==
    [symbol_table EXCEPT
         !.variables = symbol_table.constants \o VariablesBefore(k)]

(* C10: analysis resolves a Name, as a Let initializer or as an operand,   *)
(* first against the constants, then against the variables declared so far:*)
(* a Let that passes its checks under that resolution is accepted.         *)
C10_ConstantsFirst ==
    \A k \in 1..Len(body) :
        (/\ body[k].kind = "Let"
         /\ NameReferences(body[k]) # {}
         /\ AnalyzeInitializer(ConstantsFirst(k), body[k].type_annot,
                               body[k].value) = "")
        => ~(JustAnalyzed(k) /\ AnalysisFailed)

----------------------------------------------------------------------------
\* the Variables the Lets among the first k statements declare, in order
RECURSIVE DeclaredThrough(_)
DeclaredThrough(k) ==
    IF k = 0 THEN <<>>
    ELSE IF body[k].kind = "Let"
         THEN Append(DeclaredThrough(k - 1),
                     [name |-> body[k].name, type_annot |-> body[k].type_annot])
         ELSE DeclaredThrough(k - 1)

\* the Let refers to a name that no earlier Let declares: itself, or a
\* variable that only a later Let can declare
ForwardReference(k) ==
    /\ body[k].kind = "Let"
    /\ \E name \in ReferencedNames(body[k]) :
           ~found(DeclaredThrough(k - 1), name)

(* C11: when analysis works on the k-th statement, the visible variables   *)
(* are exactly those the earlier Lets declared; a Let that names itself or *)
(* a variable no earlier Let declares fails analysis.                      *)
C11_ForwardReferenceRejected ==
    \A k \in 1..Len(body) :
        /\ JustAnalyzed(k)
           => symbol_table.variables =
                  DeclaredThrough(IF AnalysisFailed THEN k - 1 ELSE k)
        /\ ForwardReference(k) => (JustAnalyzed(k) /\ AnalysisFailed)

\* analysis has accepted a Let of y and then rejected a Let of x whose
\* initializer is x itself
C11_Witness ==
    /\ Len(body) = 2
    /\ AnalysisFailed
    /\ body[1].kind = "Let" /\ body[1].name = "y"
    /\ body[2].kind = "Let" /\ body[2].name = "x"
    /\ body[2].value = Name("x")
    /\ symbol_table.variables = DeclaredThrough(1)

----------------------------------------------------------------------------
\* the program read so far is the leading part of the end-to-end program sc
Reads(sc) ==
    /\ document.constants = sc.constants
    /\ Len(body) <= Len(sc.body)
    /\ body = SubSeq(sc.body, 1, Len(body))

\* the pipeline has stopped on the whole of the end-to-end program sc
Ran(sc) ==
    /\ Reads(sc)
    /\ Len(body) = Len(sc.body)
    /\ stage \in {"done", "aborted"}

(* C12: on the integer program (scenario A) the pipeline prints exactly    *)
(* two lines, the rendering of 1 and then the rendering of 6.              *)
C12_ScenarioA ==
    /\ Reads(ScenarioA) => ~AnalysisFailed
    /\ Ran(ScenarioA)
       => (stage = "done" /\ output = <<to_string(1), to_string(6)>>)

(* C13: on the boolean program (scenario C) the run computes five = False, *)
(* itest = True, not_itest = False and prints one line, the rendering of   *)
(* False.                                                                  *)
C13_ScenarioC ==
    /\ Reads(ScenarioC) => ~AnalysisFailed
    /\ Ran(ScenarioC)
       => /\ stage = "done"
          /\ variables[1] = IntValue(0)
          /\ variables[2] = IntValue(1)
          /\ variables[3] = IntValue(0)
          /\ output = <<to_string(0)>>

(* C14: on the string program (scenario B) the pipeline prints one line,   *)
(* the string "World Hello".                                               *)
C14_ScenarioB ==
    /\ Reads(ScenarioB) => ~AnalysisFailed
    /\ Ran(ScenarioB)
       => (stage = "done" /\ output = <<World \o Space \o Hello>>)

----------------------------------------------------------------------------
\* a stage has failed
Failed == error # NoError

(* C15: processing stops at the first error: once a stage has failed no    *)
(* statement is analysed, no instruction is emitted or executed and no     *)
(* line is printed; a program rejected by analysis has no code and no      *)
(* output, a program rejected by code generation is never executed.        *)
C15_FailFast ==
    /\ [][~Failed]_vars
    /\ [](Failed => stage = "aborted")
    /\ [](AnalysisFailed
          => (op_codes = <<>> /\ cursor = 0 /\ steps = 0 /\ output = <<>>))
    /\ [](CodeGenFailed => (steps = 0 /\ output = <<>>))

\* the VM has failed after it printed a line
C15_Witness ==
    /\ InterpretFailed
    /\ Len(output) = 1
    /\ pc < Len(op_codes) - 1

----------------------------------------------------------------------------
Analysing == stage \in {"analyze_constants", "analyze_body"}

(* C16: the stages run one after the other: while analysis runs no         *)
(* instruction is emitted; instructions are emitted only after analysis    *)
(* and before the VM's first step; the VM steps only once code generation  *)
(* has lowered every statement and pushed the Halt, and the program and    *)
(* the instruction sequence no longer change then.                         *)
C16_StagesInSequence ==
    /\ []((Analysing \/ AnalysisFailed) => (op_codes = <<>> /\ steps = 0))
    /\ [](steps > 0 => (cursor = Len(body) /\ Last(op_codes) = Halt))
    /\ [][document' # document => (Analysing /\ op_codes = <<>>)]_vars
    /\ [][op_codes' # op_codes => (stage = "code_gen" /\ steps = 0)]_vars
    /\ [][steps' # steps => (stage = "interpret" /\ op_codes' = op_codes
                             /\ document' = document)]_vars

\* the VM has taken its first step on the code of a two-statement body
C16_Witness ==
    /\ stage = "interpret"
    /\ steps = 1
    /\ Len(body) = 2
    /\ Len(op_codes) >= 3

----------------------------------------------------------------------------
\* the number of Print OpCodes among the first n instructions
PrintOpsThrough(n) ==
    Cardinality({i \in 1..n : op_codes[i].op = "Print"})

\* the number of print calls among the first j statements
CallsThrough(j) == j - LetOrdinal(j)

\* the number of instructions code_gen pushed for the first j statements
RECURSIVE SegmentEnd(_)
SegmentEnd(j) ==
    IF j = 0 THEN 0
    ELSE SegmentEnd(j - 1)
         + Len(CodeGenResult(generator, symbol_table, body[j]).code)

(* C17: the VM prints one line per executed Print; the k-th Print of the   *)
(* code belongs to the k-th print call of the body; a run that reaches     *)
(* Halt has printed exactly one line per print call, in source order.      *)
C17_OutputOrder ==
    (stage \in {"interpret", "done"} \/ InterpretFailed)
    => /\ Len(output) = PrintOpsThrough(pc)
       /\ \A j \in 1..Len(body) :
              PrintOpsThrough(SegmentEnd(j)) = CallsThrough(j)
       /\ stage = "done" => Len(output) = CallsThrough(Len(body))

\* a run has reached Halt on a body of two print calls whose lines differ
C17_Witness ==
    /\ stage = "done"
    /\ Len(body) = 2
    /\ CallsThrough(2) = 2
    /\ Len(output) = 2
    /\ output[1] # output[2]

----------------------------------------------------------------------------
\* the OpCodes that place a value in a register
LoadOps == {"Load", "LoadImm", "LoadIntConst", "LoadStringConst"}

\* statement k is a Let whose initializer is the operation of a set of
\* operations
IsLetOf(k, ops) ==
    /\ body[k].kind = "Let"
    /\ body[k].value.kind = "Op"
    /\ body[k].value.op \in ops

(* C18: for a Let whose initializer is a binary operation, code generation *)
(* emits four instructions: a load into register 1, a load into register   *)
(* 2, the operation's OpCode with destination 3 and sources 1 and 2, and a *)
(* Store from register 3.                                                  *)
C18_BinaryLowering ==
    \A k \in 1..Len(body) :
        (JustLowered(k) /\ IsLetOf(k, BinaryOps))
        => LET code == JustEmitted(k)
           IN  /\ Len(code) = 4
               /\ code[1].op \in LoadOps /\ code[1].arg1 = 1
               /\ code[2].op \in LoadOps /\ code[2].arg1 = 2
               /\ code[3] = Arith(OpCodeOf(body[k].value.op), 3, 1, 2)
               /\ code[4].op = "Store" /\ code[4].arg2 = 3

----------------------------------------------------------------------------
\* the word of True and of False
BoolWord(name) == IF name = TrueName THEN 1 ELSE 0

\* interpret has just executed the last instruction of statement k
JustExecuted(k) ==
    /\ stage \in {"interpret", "done"}
    /\ pc = SegmentEnd(k)

(* C19: for a Let whose initializer is not(x), code generation emits a     *)
(* load of x into register 1, Not on register 1 and a Store from register  *)
(* 1; once the Store has run, the slot of a Let of not(True) holds the     *)
(* word of False and the slot of a Let of not(False) the word of True.     *)
C19_UnaryLowering ==
    \A k \in 1..Len(body) :
        /\ (JustLowered(k) /\ IsLetOf(k, UnaryOps))
           => LET code == JustEmitted(k)
              IN  /\ Len(code) = 3
                  /\ code[1].op \in LoadOps /\ code[1].arg1 = 1
                  /\ code[2] = Not(1)
                  /\ code[3].op = "Store" /\ code[3].arg2 = 1
        /\ (JustExecuted(k) /\ IsLetOf(k, UnaryOps)
              /\ body[k].value.args[1].kind = "UpName")
           => variables[op_codes[pc].arg1]
                = IntValue(1 - BoolWord(body[k].value.args[1].name))

----------------------------------------------------------------------------
\* the initializer of statement k is a literal or the name of a constant
LiteralOrConstant(k) ==
    /\ body[k].kind = "Let"
    /\ \/ body[k].value.kind \in {"Int", "String", "UpName"}
       \/ body[k].value.kind = "Name" /\ IsConstant(body[k].value.name)

\* code_gen has worked on statement k, with or without a panic
Lowered(k) ==
    /\ generator # "none"
    /\ cursor = k
    /\ stage = "code_gen" \/ CodeGenFailed

(* C20: for a Let whose initializer is a literal or the name of a constant *)
(* code generation emits exactly two instructions, a load into register 1  *)
(* and a Store from register 1 to the slot; the constants take no slot.    *)
C20_LiteralLetLowering ==
    \A k \in 1..Len(body) :
        (Lowered(k) /\ LiteralOrConstant(k))
        => /\ ~CodeGenFailed
           /\ LET code == JustEmitted(k)
              IN  /\ Len(code) = 2
                  /\ code[1].op \in LoadOps /\ code[1].arg1 = 1
                  /\ code[2].op = "Store" /\ code[2].arg2 = 1
           /\ Len(symbol_table.variables) = LetOrdinal(Len(body))

----------------------------------------------------------------------------
(* C21: for a print call code generation emits a load of the argument into *)
(* register 1 followed by Print{1}, and no store.                          *)
C21_PrintLowering ==
    \A k \in 1..Len(body) :
        (JustLowered(k) /\ body[k].kind = "Call")
        => LET code == JustEmitted(k)
           IN  /\ Len(code) = 2
               /\ code[1].op \in LoadOps /\ code[1].arg1 = 1
               /\ code[2] = PrintReg(1)
               /\ \A i \in 1..Len(code) : code[i].op \notin StoreOps

----------------------------------------------------------------------------
(* C22: in the code generated for a program that analysis accepted, every  *)
(* Load of a slot comes after a store to that slot, and the VM never       *)
(* faults on a Load of a slot that was never stored.                       *)
C22_NoUseBeforeDef ==
    AnalysisPassed
    => /\ \A i \in 1..Len(op_codes) :
              op_codes[i].op = "Load"
              => \E j \in 1..(i - 1) :
                     /\ op_codes[j].op \in StoreOps
                     /\ op_codes[j].arg1 = op_codes[i].arg2
       /\ ~(InterpretFailed /\ error.message = UnwrapNone)

----------------------------------------------------------------------------
\* the operand type each operation of the table requires
RequiredType(op) ==
    CASE op \in {"add", "sub"} -> "Integer"
      [] op = "concat" -> "String"
      [] op \in {"and", "or", "not"} -> "Bool"

\* the type of an operand of statement k: the type of a literal, the
\* declared type of a variable (its first declaration among the earlier
\* Lets), "none" for a name that no earlier Let declares
OperandType(k, operand) ==
    IF operand.kind = "Name"
    THEN IF found(DeclaredThrough(k - 1), operand.name)
         THEN find(DeclaredThrough(k - 1), operand.name).type_annot
         ELSE "none"
    ELSE IntrinsicType(operand)

\* statement k is a Let of an operation with an operand, literal or
\* variable, of another type than the operation requires
WrongOperand(k) ==
    /\ body[k].kind = "Let"
    /\ body[k].value.kind = "Op"
    /\ \E i \in DOMAIN body[k].value.args :
           OperandType(k, body[k].value.args[i])
               \notin {"none", RequiredType(body[k].value.op)}

(* C23: a Let whose operation has an operand, left or right, literal or    *)
(* variable, of another type than the operation requires fails analysis,   *)
(* and no Variable entry is added for it.                                  *)
C23_OperandValidation ==
    \A k \in 1..Len(body) :
        WrongOperand(k)
        => /\ JustAnalyzed(k)
           /\ AnalysisFailed
           /\ Len(symbol_table.variables) = LetOrdinal(k - 1)

\* analysis has accepted let x: Integer and then rejected a Bool Let of
\* and(True, x): the declared type and the left operand are right, the
\* right operand is a variable of the wrong type
C23_Witness ==
    /\ Len(body) = 2
    /\ AnalysisFailed
    /\ body[1].kind = "Let" /\ body[1].name = "x"
    /\ body[1].type_annot = "Integer"
    /\ body[2].kind = "Let" /\ body[2].type_annot = "Bool"
    /\ body[2].value = Op("and", <<UpName(TrueName), Name("x")>>)
    /\ WrongOperand(2)
    /\ error.message = "Type mismatch"
    /\ Len(symbol_table.variables) = 1

----------------------------------------------------------------------------
\* the number of statements analysis has accepted
Accepted == IF AnalysisFailed /\ Len(body) > 0 THEN Len(body) - 1
            ELSE Len(body)

(* C24: the Variable list starts empty and holds, in source order, one     *)
(* entry with the name and the declared type of each Let that analysis     *)
(* accepted; a step changes it only by appending the entry of the Let that *)
(* analysis accepts in that step.                                          *)
C24_SymbolTableGrowth ==
    /\ [](stage = "analyze_constants" => symbol_table.variables = <<>>)
    /\ [](/\ Len(symbol_table.variables) = LetOrdinal(Accepted)
          /\ symbol_table.variables = DeclaredThrough(Accepted))
    /\ [][symbol_table.variables' # symbol_table.variables
          => /\ stage = "analyze_body"
             /\ stage' = "analyze_body"
             /\ Len(document'.body) = Len(body) + 1
             /\ Last(document'.body).kind = "Let"
             /\ symbol_table.variables' =
                    Append(symbol_table.variables,
                           [name |-> Last(document'.body).name,
                            type_annot |-> Last(document'.body).type_annot])]_vars

\* analysis has accepted a Let of y and then a Let of x of another type
C24_Witness ==
    /\ stage = "code_gen"
    /\ Len(body) = 2
    /\ body[1].kind = "Let" /\ body[1].name = "y"
    /\ body[2].kind = "Let" /\ body[2].name = "x"
    /\ body[1].type_annot # body[2].type_annot
    /\ symbol_table.variables =
           <<[name |-> "y", type_annot |-> body[1].type_annot],
             [name |-> "x", type_annot |-> body[2].type_annot]>>

----------------------------------------------------------------------------
(* The pipeline on functions that declare a name twice *)

MaxDuplicateStmts == 3

\* Lets of x and y, of a literal or of the variable x, and a print of x
DuplicateStatements ==
    {Let(n, t, v) : n \in LetNames, t \in {"Integer", "Bool"},
                    v \in {IntLit(1), UpName(TrueName), Name("x")}}
    \cup {Call("print_integer", <<Name("x")>>)}

\* analyze on the Const x of the top-level Block, when there is one
DuplicateConst ==
    /\ stage = "analyze_constants"
    /\ Len(document.constants) = 0
    /\ AnalyzeConstOf(Const("x", "Integer", IntLit(5)))

\* analyze on the next statement of the function body
DuplicateStatement ==
    /\ stage = "analyze_body"
    /\ Len(document.body) < MaxDuplicateStmts
    /\ \E stmt \in DuplicateStatements : AnalyzeStatementOf(stmt)

DuplicateNext ==
    \/ DuplicateConst
    \/ AnalyzeFn
    \/ DuplicateStatement
    \/ AnalyzeReturn
    \/ CodeGenFn
    \/ CodeGenStatement
    \/ CodeGenHalt
    \/ Step

DuplicateSpec == Init /\ [][DuplicateNext]_vars

\* the name is declared by two of the first k statements
DeclaredTwice(k, name) ==
    \E i, j \in 1..k :
        /\ i < j
        /\ body[i].kind = "Let" /\ body[i].name = name
        /\ body[j].kind = "Let" /\ body[j].name = name

\* the names statement k looks up: those of its initializer, or of its
\* print argument
LookedUp(k) ==
    IF body[k].kind = "Let" THEN ReferencedNames(body[k])
    ELSE {body[k].args[i].name :
            i \in {j \in DOMAIN body[k].args : body[k].args[j].kind = "Name"}}

(* C25: two Lets of one name are both accepted and make two entries, in    *)
(* order; a later statement that looks the name up is analysed with the    *)
(* type of the first entry, and its code loads the slot of the first       *)
(* entry.                                                                  *)
C25_DuplicateNames ==
    \A k \in 1..Len(body) : \A name \in LookedUp(k) :
        DeclaredTwice(k - 1, name)
        => /\ AnalysisPassed \/ Len(body) > k
              => symbol_table.variables = DeclaredThrough(Accepted)
           /\ (JustAnalyzed(k) /\ body[k].kind = "Let")
              => (AnalysisFailed
                    <=> find(DeclaredThrough(k - 1), name).type_annot
                            # body[k].type_annot)
           /\ JustLowered(k)
              => \E i \in 1..Len(JustEmitted(k)) :
                     /\ JustEmitted(k)[i].op = "Load"
                     /\ JustEmitted(k)[i].arg2
                            = position(DeclaredThrough(k - 1), name)

----------------------------------------------------------------------------
\* the initializer of the Const is a bare literal of the declared type
MatchingLiteral(decl) ==
    /\ decl.value.kind \in {"Int", "String", "UpName"}
    /\ IntrinsicType(decl.value) = decl.type_annot

\* the Constant entry carries the value of the literal
CarriesValue(entry, literal) ==
    CASE literal.kind = "Int" ->
            parse(entry.value).ok /\ parse(entry.value).value = literal.value
      [] literal.kind = "String" -> entry.value = literal.text
      [] literal.kind = "UpName" -> entry.value = literal.name
      [] OTHER -> FALSE

\* the number of constants analysis has accepted
AcceptedConstants ==
    IF AnalysisFailed /\ body = <<>> THEN Len(document.constants) - 1
    ELSE Len(document.constants)

(* C26: a constant whose initializer is a bare literal of the declared     *)
(* type is appended to the constants with its name, declared type and      *)
(* value; any other initializer, a literal of another type, a name or an   *)
(* expression, makes analysis fail and appends nothing.                    *)
C26_ConstantAnalysis ==
    /\ Len(symbol_table.constants) = AcceptedConstants
    /\ \A i \in 1..Len(document.constants) :
           LET decl == document.constants[i]
           IN  IF MatchingLiteral(decl)
               THEN /\ i <= AcceptedConstants
                    /\ symbol_table.constants[i].name = decl.name
                    /\ symbol_table.constants[i].type_annot = decl.type_annot
                    /\ CarriesValue(symbol_table.constants[i], decl.value)
               ELSE /\ AnalysisFailed
                    /\ body = <<>>
                    /\ i = Len(document.constants)

\* analysis has accepted the Integer constant x = 5 and gone on to the
\* function
C26_Witness ==
    /\ stage = "analyze_body"
    /\ Len(document.constants) = 1
    /\ document.constants[1] = Const("x", "Integer", IntLit(5))
    /\ symbol_table.constants =
           <<[name |-> "x", type_annot |-> "Integer", value |-> <<"5">>]>>

----------------------------------------------------------------------------
(* interpret on an instruction sequence of its own *)

MaxOpCodes == 3

\* the instructions the sequences are made of
Instructions ==
    {LoadImm("main", 1, 1), LoadImm("main", 2, Modulus - 1),
     Arith("Add", 3, 1, 2), Arith("Sub", 3, 1, 2),
     Store(0, 3), Load(1, 0), PrintReg(1), PrintReg(40), Halt}

\* the sequences of up to MaxOpCodes instructions
OpCodeSequences ==
    UNION {[1..n -> Instructions] : n \in 0..MaxOpCodes}

\* main has just called interpret(op_codes)
InterpretInit ==
    /\ stage = "interpret"
    /\ document = [constants |-> <<>>, body |-> <<>>]
    /\ symbol_table = [variables |-> <<>>, functions |-> <<>>,
                       constants |-> <<>>]
    /\ generator = "none"
    /\ cursor = 0
    /\ op_codes \in OpCodeSequences
    /\ registers = InitialRegisters
    /\ variables = <<>>
    /\ pc = 0
    /\ steps = 0
    /\ output = <<>>
    /\ overflow_checks = "unset"
    /\ error = NoError

InterpretNext == Step

InterpretSpec == InterpretInit /\ [][InterpretNext]_vars

\* op_codes has no Halt
NoHalt == \A i \in 1..Len(op_codes) : op_codes[i] # Halt

(* C27, as stated: on a sequence without Halt the VM executes every        *)
(* instruction and faults only on the fetch at pc = Len(op_codes).         *)
C27_MissingHaltFault ==
    NoHalt
    => /\ stage # "done"
       /\ pc <= Len(op_codes)
       /\ InterpretFailed
          => /\ pc = Len(op_codes)
             /\ steps = Len(op_codes)
             /\ error.message = IndexOutOfBounds

(* C27, amended: on a sequence without Halt the VM never stops cleanly and *)
(* the program counter never passes Len(op_codes) nor goes back; every     *)
(* step either executes the instruction at pc and moves to pc + 1, or is a *)
(* fault that ends the run at pc; at pc = Len(op_codes) the step is the    *)
(* out-of-bounds fault of the fetch.                                       *)
C27_MissingHaltFaults ==
    /\ [](NoHalt => (stage # "done" /\ pc <= Len(op_codes)))
    /\ [](NoHalt /\ stage = "interpret" => steps = pc)
    /\ [][NoHalt
          => IF pc < Len(op_codes)
             THEN \/ pc' = pc + 1 /\ stage' = "interpret" /\ steps' = pc'
                  \/ pc' = pc /\ InterpretFailed' /\ steps' = pc + 1
             ELSE /\ pc' = pc
                  /\ InterpretFailed'
                  /\ error'.message = IndexOutOfBounds
                  /\ output' = output]_vars

\* three instructions without Halt were executed, a line was printed, and
\* the fetch at pc = 3 has faulted
C27_Witness ==
    /\ NoHalt
    /\ Len(op_codes) = MaxOpCodes
    /\ InterpretFailed
    /\ pc = Len(op_codes)
    /\ steps = Len(op_codes)
    /\ error.message = IndexOutOfBounds
    /\ Len(output) >= 1

----------------------------------------------------------------------------
\* interpret is about to execute an Add or a Sub on registers of the bank
\* that hold integers
AtArithmetic ==
    /\ stage = "interpret"
    /\ pc < Len(op_codes)
    /\ op_codes[pc + 1].op \in {"Add", "Sub"}
    /\ \A i \in 1..3 : InBank(Indexed(op_codes[pc + 1])[i])
    /\ \A r \in IntOperands(op_codes[pc + 1]) : registers[r].tag = "Int"

\* the integer the Add or Sub at pc computes, in unbounded arithmetic
Exact ==
    LET instr == op_codes[pc + 1]
        a == registers[instr.arg2].int
        b == registers[instr.arg3].int
    IN  IF instr.op = "Add" THEN a + b ELSE a - b

(* C28: an Add or Sub on integers a and b leaves a + b, respectively       *)
(* a - b, in the destination register when that is a value of the register *)
(* type; when it is not, the step either faults or leaves the result       *)
(* modulo 2^w there.                                                       *)
C28_IntegerArithmetic ==
    [][AtArithmetic
       => IF Exact \in 0..(Modulus - 1)
          THEN /\ stage' = "interpret"
               /\ registers'[op_codes[pc + 1].arg1] = IntValue(Exact)
          ELSE \/ InterpretFailed' /\ registers' = registers
               \/ /\ stage' = "interpret"
                  /\ registers'[op_codes[pc + 1].arg1]
                         = IntValue((Exact + Modulus) % Modulus)]_vars

\* Add has run on 1 and the largest word in a build without overflow
\* checks, and register 3 holds 0
C28_Witness ==
    /\ stage = "interpret"
    /\ pc = 3
    /\ op_codes[3] = Arith("Add", 3, 1, 2)
    /\ registers[1].int + registers[2].int = Modulus
    /\ overflow_checks = "off"
    /\ registers[3] = IntValue(0)

----------------------------------------------------------------------------
(* C29: while the generated code of an accepted program runs, the slot of  *)
(* every variable declared Bool holds 0 or 1.                              *)
C29_BoolValues ==
    (stage \in {"interpret", "done"} \/ InterpretFailed)
    => \A i \in 1..Len(symbol_table.variables) :
           (symbol_table.variables[i].type_annot = "Bool"
              /\ (i - 1) \in DOMAIN variables)
           => variables[i - 1] \in {IntValue(0), IntValue(1)}

----------------------------------------------------------------------------
(* C30: no step of code generation changes the symbol table: its           *)
(* constants, functions and variables stay what analysis produced.         *)
C30_CodeGenFrame ==
    [][stage = "code_gen" => symbol_table' = symbol_table]_vars

====
